---------------------------- MODULE Spec2Model ----------------------------
(***************************************************************************)
(* A model of pythonwhois/net.py: the WHOIS referral resolver.             *)
(*                                                                         *)
(* Texts (domains, server names, request lines, responses) are TLA+        *)
(* strings handled character by character, so that suffix tests, case      *)
(* conversion, the referral regular expression, the split on blank lines   *)
(* and the "Domain Name:" search are computed the way the code computes    *)
(* them.                                                                   *)
(***************************************************************************)
EXTENDS Naturals, Sequences, FiniteSets, TLC

VARIABLES
    api,          \* the entry point the client called
    domain,       \* WhoisParser._domain
    explicit,     \* the server argument of the top-level call ("" = none)
    rfc3490,      \* WhoisParser.rfc3490
    never_cut,    \* the never_cut argument
    with_server_list, \* the with_server_list argument
    buff,         \* the bytes handed to _server_process_result
    pc,           \* where the call stands
    server,       \* the server parameter of the current get_whois_raw frame
    whois_server, \* the server being queried
    converted,    \* the cached _domain_rfc3490 attribute (None until set)
    response,     \* the response text in hand
    previous,     \* the Response Chain (list of response texts)
    server_list,  \* the Visited Server List
    sent,         \* every request put on the network, in order
    sockets,      \* the sockets created that the code has not closed
    calls,        \* the earlier top-level calls made on the instance
    reply,        \* the response text each contacted server answers with
    events,       \* what the call consulted, in order
    outcome,      \* "none" while running, then "ok" or the error raised
    result        \* the value returned to the caller

vars == << api, domain, explicit, rfc3490, never_cut, with_server_list, buff, pc,
           server, whois_server, converted, response, previous, server_list,
           sent, sockets, calls, reply, events, outcome, result >>

-----------------------------------------------------------------------------
(* Bounds of the model.                                                    *)

\* Longest response text, in lines, handed to a directly called helper.
MaxLines == 3

\* Cap on the requests one call may put on the network.
MaxQueries == 6

\* Longest byte string handed to a directly called _server_process_result.
MaxBytes == 3

\* Top-level calls of get_whois_raw made on one WhoisParser instance.
MaxCalls == 2

-----------------------------------------------------------------------------
(* Characters and strings.                                                 *)

AsciiLower == "abcdefghijklmnopqrstuvwxyz"
AsciiUpper == "ABCDEFGHIJKLMNOPQRSTUVWXYZ"
AsciiOther == "0123456789.-_:/=, \n"

\* The one non-ASCII letter of the model is u with diaeresis (U+00FC), with
\* its capital (U+00DC).  A state holds seven-bit characters only, so the
\* two letters are written "~" and "^", which no text of the model holds
\* for themselves.
SmallUDiaeresis == "~"
CapitalUDiaeresis == "^"

\* the cased letters of the model
LowerAlpha == AsciiLower \o SmallUDiaeresis
UpperAlpha == AsciiUpper \o CapitalUDiaeresis

Char(s, i) == SubSeq(s, i, i)

CharsOf(s) == { Char(s, i) : i \in 1..Len(s) }

AsciiChars ==
    CharsOf(AsciiLower) \cup CharsOf(AsciiUpper) \cup CharsOf(AsciiOther)

IsAscii(s) == \A i \in 1..Len(s) : Char(s, i) \in AsciiChars

\* str.upper() / str.lower() on one character
UpperMap ==
    [ c \in CharsOf(LowerAlpha) |->
        Char(UpperAlpha, CHOOSE i \in 1..Len(LowerAlpha) : Char(LowerAlpha, i) = c) ]

LowerMap ==
    [ c \in CharsOf(UpperAlpha) |->
        Char(LowerAlpha, CHOOSE i \in 1..Len(UpperAlpha) : Char(UpperAlpha, i) = c) ]

UpperChar(c) == IF c \in DOMAIN UpperMap THEN UpperMap[c] ELSE c

LowerChar(c) == IF c \in DOMAIN LowerMap THEN LowerMap[c] ELSE c

\* str.upper() / str.lower(): character by character (the string is halved
\* to keep the recursion shallow)
UpperOf[s \in STRING] ==
    IF Len(s) <= 1 THEN UpperChar(s)
    ELSE UpperOf[SubSeq(s, 1, Len(s) \div 2)]
             \o UpperOf[SubSeq(s, Len(s) \div 2 + 1, Len(s))]

LowerOf[s \in STRING] ==
    IF Len(s) <= 1 THEN LowerChar(s)
    ELSE LowerOf[SubSeq(s, 1, Len(s) \div 2)]
             \o LowerOf[SubSeq(s, Len(s) \div 2 + 1, Len(s))]

Upper(s) == UpperOf[s]

Lower(s) == LowerOf[s]

\* the least number of a non-empty set of numbers
Least(S) == CHOOSE n \in S : \A m \in S : n <= m

\* s.endswith(suffix)
EndsWith(s, suffix) ==
    /\ Len(suffix) <= Len(s)
    /\ SubSeq(s, Len(s) - Len(suffix) + 1, Len(s)) = suffix

\* s[i:].startswith(prefix), i counted from 1
StartsAt(s, i, prefix) ==
    /\ i + Len(prefix) - 1 <= Len(s)
    /\ SubSeq(s, i, i + Len(prefix) - 1) = prefix

\* sub in s
Contains(s, sub) == \E i \in 1..(Len(s) + 1) : StartsAt(s, i, sub)

\* the class \s of the re module, on the characters of the model
IsSpace(c) == c \in {" ", "\n"}

\* s.split(sep): the pieces between the non-overlapping occurrences of sep,
\* found left to right
SplitOf[s \in STRING, sep \in STRING] ==
    IF ~ Contains(s, sep)
    THEN << s >>
    ELSE LET i == Least({ k \in 1..Len(s) : StartsAt(s, k, sep) })
         IN  << SubSeq(s, 1, i - 1) >>
                 \o SplitOf[SubSeq(s, i + Len(sep), Len(s)), sep]

Split(s, sep) == SplitOf[s, sep]

-----------------------------------------------------------------------------
(* The class attributes and pure helpers of WhoisParser.                   *)

\* Python's None, and the exceptions a call can end with
NONE == "<None>"
EncodingError == "UnicodeError"
NoAuthorityError == "WhoisException"
TransportError == "socket.error"

IANA_SERVER == "whois.iana.org"

\* whois_regexp: the labels of the alternation, matched with re.IGNORECASE
whois_labels ==
    << "refer", "whois server", "referral url", "whois server",
       "registrar whois" >>

\* root_servers, in the order the dict literal lists its items
root_servers ==
    << << ".ac.uk", "whois.ja.net" >>,
       << ".ps", "whois.pnina.ps" >>,
       << ".buzz", "whois.nic.buzz" >>,
       << ".moe", "whois.nic.moe" >>,
       << "example.com", "whois.verisign-grs.com" >> >>

\* ToASCII of the non-ASCII labels that occur in the model (nameprep and
\* punycode, as the "idna" codec computes them)
Punycode ==
    [ l \in { "b" \o SmallUDiaeresis \o "cher" } |-> "xn--bcher-kva" ]

\* encode(label, "idna") of one label; last tells the final label, which
\* alone may be empty
ToASCII(label, last) ==
    IF IsAscii(label)
    THEN IF (Len(label) > 0 \/ last) /\ Len(label) < 64
         THEN label ELSE EncodingError
    ELSE IF label \in DOMAIN Punycode THEN Punycode[label] ELSE EncodingError

\* ".".join(ls)
JoinDots[ls \in Seq(STRING)] ==
    IF Len(ls) = 1 THEN ls[1] ELSE ls[1] \o "." \o JoinDots[Tail(ls)]

\* convert_to_rfc3490 (the Python 3 branch): the IDNA form of the domain,
\* or EncodingError when a label cannot be encoded
convert_to_rfc3490(d) ==
    LET ls  == Split(d, ".")
        enc == [ i \in 1..Len(ls) |-> ToASCII(ls[i], i = Len(ls)) ]
    IN  IF \E i \in 1..Len(ls) : enc[i] = EncodingError
        THEN EncodingError
        ELSE JoinDots[enc]

\* the lookup that takes a pattern for a whole domain
DefaultServerOfWholeDomain(d) ==
    LET hits == { i \in 1..Len(root_servers) : d = root_servers[i][1] }
    IN  IF hits = { } THEN NONE ELSE root_servers[Least(hits)][2]

\* get_default_server: the server of the first item of root_servers whose
\* pattern the domain ends with, None when there is none
get_default_server(d) ==
    LET hits == { i \in 1..Len(root_servers) : EndsWith(d, root_servers[i][1]) }
    IN  IF hits = { } THEN NONE ELSE root_servers[Least(hits)][2]

\* the rules with the DENIC quirk for any domain
PrepareRequestForDenic(d, s) ==
    IF s = "whois.jprs.jp"
    THEN d \o "/e"
    ELSE IF s = "whois.denic.de" \/ s = "de.whois-servers.net"
    THEN "-T dn,ace " \o d
    ELSE IF s = "whois.verisign-grs.com"
    THEN "=" \o d
    ELSE d

\* prepare_request
prepare_request(d, s) ==
    IF s = "whois.jprs.jp"
    THEN d \o "/e"
    ELSE IF /\ EndsWith(d, ".de")
            /\ (s = "whois.denic.de" \/ s = "de.whois-servers.net")
    THEN "-T dn,ace " \o d
    ELSE IF s = "whois.verisign-grs.com"
    THEN "=" \o d
    ELSE d

-----------------------------------------------------------------------------
(* whois_regexp and extract_whois_server.                                  *)

\* whether  (?:refer|whois server|...):  matches at position i of the text;
\* low is the text in lower case, for re.IGNORECASE
LabelAt(low, i) ==
    \E k \in 1..Len(whois_labels) : StartsAt(low, i, whois_labels[k] \o ":")

\* the position just after the label and its colon
LabelEnd(low, i) ==
    LET k == CHOOSE n \in 1..Len(whois_labels) :
                 StartsAt(low, i, whois_labels[n] \o ":")
    IN  i + Len(whois_labels[k]) + 1

\* \s* : the first position from i on that holds no white space
SkipSpace(text, i) ==
    CHOOSE j \in i..(Len(text) + 1) :
        /\ j = Len(text) + 1 \/ ~ IsSpace(Char(text, j))
        /\ \A k \in i..(j - 1) : IsSpace(Char(text, k))

\* the position just after the run of non-space characters starting at i
RunEnd(text, i) ==
    CHOOSE j \in i..(Len(text) + 1) :
        /\ j = Len(text) + 1 \/ IsSpace(Char(text, j))
        /\ \A k \in i..(j - 1) : ~ IsSpace(Char(text, k))

\* ([^\s]+\.[^\s]+) against the run text[a..b-1]: it matches, and then
\* captures the whole run, when a dot has a character on either side
TokenMatches(text, a, b) ==
    \E p \in (a + 1)..(b - 2) : Char(text, p) = "."

\* whois_regexp matched at position i: << matched, capture, end >>
RegexpAt(text, low, i) ==
    IF ~ LabelAt(low, i)
    THEN << FALSE, "", i >>
    ELSE LET a == SkipSpace(text, LabelEnd(low, i))
             b == RunEnd(text, a)
         IN  IF TokenMatches(text, a, b)
             THEN << TRUE, SubSeq(text, a, b - 1), b >>
             ELSE << FALSE, "", i >>

\* whois_regexp.findall(text): the captures of the non-overlapping matches,
\* scanning from position i
FindAllFrom[text \in STRING, low \in STRING, i \in Nat] ==
    LET starts == { j \in i..Len(text) : RegexpAt(text, low, j)[1] }
    IN  IF starts = { }
        THEN << >>
        ELSE LET m == RegexpAt(text, low, Least(starts))
             IN  << m[2] >> \o FindAllFrom[text, low, m[3]]

findall(text) == FindAllFrom[text, Lower(text), 1]

\* str.strip()
StripOf[s \in STRING] ==
    IF s # "" /\ IsSpace(Char(s, 1)) THEN StripOf[Tail(s)]
    ELSE IF s # "" /\ IsSpace(Char(s, Len(s)))
    THEN StripOf[SubSeq(s, 1, Len(s) - 1)]
    ELSE s

Strip(s) == StripOf[s]

InList(x, list) == \E i \in 1..Len(list) : list[i] = x

\* the loop without its test of the server list
FirstServerRevisiting(items, list) ==
    LET hits == { i \in 1..Len(items) : ~ Contains(Strip(items[i]), "://") }
    IN  IF hits = { } THEN NONE ELSE Strip(items[Least(hits)])

\* the loop giving up at the first item that fails its test
FirstServerOrNone(items, list) ==
    IF items = << >> THEN NONE
    ELSE IF /\ ~ InList(Strip(items[1]), list)
            /\ ~ Contains(Strip(items[1]), "://")
    THEN Strip(items[1])
    ELSE NONE

\* the loop of extract_whois_server over the items: it returns at the first
\* item that passes the test, and None when it runs out of items
FirstNewServer(items, list) ==
    LET hits == { i \in 1..Len(items) :
                      /\ ~ InList(Strip(items[i]), list)
                      /\ ~ Contains(Strip(items[i]), "://") }
    IN  IF hits = { } THEN NONE ELSE Strip(items[Least(hits)])

\* extract_whois_server(response, server_list); the empty list stands for
\* a server_list of None, which the code replaces by []
extract_whois_server(text, list) ==
    FirstNewServer(findall(text), list)

-----------------------------------------------------------------------------
(* _process_response.                                                      *)

\* re.search(pattern, text) for a pattern of literal characters and ".",
\* which matches any character but a newline
PatternAt(pattern, text, i) ==
    /\ i + Len(pattern) - 1 <= Len(text)
    /\ \A j \in 1..Len(pattern) :
           IF Char(pattern, j) = "."
           THEN Char(text, i + j - 1) # "\n"
           ELSE Char(text, i + j - 1) = Char(pattern, j)

re_search(pattern, text) ==
    \E i \in 1..(Len(text) + 1) : PatternAt(pattern, text, i)

\* the loop over response.split("\n\n"): the first record the pattern is
\* found in, the response text itself when it is found in none
FirstRecord(records, pattern, text) ==
    LET hits == { i \in 1..Len(records) : re_search(pattern, records[i]) }
    IN  IF hits = { } THEN text ELSE records[Least(hits)]

select_record(text, d) ==
    FirstRecord(Split(text, "\n\n"),
                "Domain Name: " \o Upper(d) \o "\n", text)

\* list.insert(0, x)
Insert0(list, x) == << x >> \o list

\* with never_cut, the full response returned for the referral scan
ProcessResponseScanningFull(text, d, s, prev, list, nc) ==
    LET prev1 == IF nc THEN Insert0(prev, text) ELSE prev
        resp1 == IF s = "whois.verisign-grs.com" /\ ~ nc
                 THEN select_record(text, d) ELSE text
        prev2 == IF ~ nc THEN Insert0(prev1, resp1) ELSE prev1
    IN  [ response |-> resp1, previous |-> prev2,
          server_list |-> Append(list, s) ]

\* the second insert done with never_cut too
ProcessResponseInsertingTwice(text, d, s, prev, list, nc) ==
    LET prev1 == IF nc THEN Insert0(prev, text) ELSE prev
        resp1 == IF s = "whois.verisign-grs.com"
                 THEN select_record(text, d) ELSE text
    IN  [ response |-> resp1, previous |-> Insert0(prev1, resp1),
          server_list |-> Append(list, s) ]

\* _process_response: the response it returns and the two lists it mutates
process_response(text, d, s, prev, list, nc) ==
    LET prev1 == IF nc THEN Insert0(prev, text) ELSE prev
        resp1 == IF s = "whois.verisign-grs.com"
                 THEN select_record(text, d) ELSE text
        prev2 == IF ~ nc THEN Insert0(prev1, resp1) ELSE prev1
    IN  [ response |-> resp1, previous |-> prev2,
          server_list |-> Append(list, s) ]

-----------------------------------------------------------------------------
(* _server_process_result.  A byte string is a sequence of numbers         *)
(* 0..255, a decoded text the sequence of its code points.                 *)

DecodeError == "ValueError"

\* a continuation byte of UTF-8
IsTrail(b) == b \in 128..191

\* the number of bytes of the UTF-8 sequence that the lead byte b1 and the
\* byte b2 after it begin, 0 when they begin none (overlong forms,
\* surrogates and code points past U+10FFFF are refused by the second byte)
Utf8Width(b1, b2) ==
    IF b1 < 128 THEN 1
    ELSE IF b1 \in 194..223 /\ IsTrail(b2) THEN 2
    ELSE IF \/ b1 = 224 /\ b2 \in 160..191
            \/ b1 \in (225..236) \cup (238..239) /\ IsTrail(b2)
            \/ b1 = 237 /\ b2 \in 128..159
    THEN 3
    ELSE IF \/ b1 = 240 /\ b2 \in 144..191
            \/ b1 \in 241..243 /\ IsTrail(b2)
            \/ b1 = 244 /\ b2 \in 128..143
    THEN 4
    ELSE 0

\* the byte at position i, 0 past the end (0 is no continuation byte)
ByteAt(bs, i) == IF i <= Len(bs) THEN bs[i] ELSE 0

\* the code point of the UTF-8 sequence of w bytes at position i
CodePointAt(bs, i, w) ==
    IF w = 1 THEN bs[i]
    ELSE IF w = 2 THEN (bs[i] - 192) * 64 + (bs[i + 1] - 128)
    ELSE IF w = 3
    THEN (bs[i] - 224) * 4096 + (bs[i + 1] - 128) * 64 + (bs[i + 2] - 128)
    ELSE (bs[i] - 240) * 262144 + (bs[i + 1] - 128) * 4096
             + (bs[i + 2] - 128) * 64 + (bs[i + 3] - 128)

\* bytes.decode("utf-8") from position i on: ok tells whether it succeeds,
\* text is what it returns
Utf8DecodeFrom[bs \in Seq(Nat), i \in Nat] ==
    IF i > Len(bs)
    THEN [ ok |-> TRUE, text |-> << >> ]
    ELSE LET w == Utf8Width(bs[i], ByteAt(bs, i + 1))
         IN  IF \/ w = 0
                \/ i + w - 1 > Len(bs)
                \/ \E j \in (i + 2)..(i + w - 1) : ~ IsTrail(bs[j])
             THEN [ ok |-> FALSE, text |-> << >> ]
             ELSE LET rest == Utf8DecodeFrom[bs, i + w]
                  IN  [ ok |-> rest.ok,
                        text |-> << CodePointAt(bs, i, w) >> \o rest.text ]

\* the tuple of encodings of _server_process_result
encodings == << "utf-8", "iso-8859-1" >>

\* result.decode(encoding); ISO-8859-1 maps every byte to the code point
\* of the same number
Decode(bs, encoding) ==
    IF encoding = "utf-8"
    THEN Utf8DecodeFrom[bs, 1]
    ELSE [ ok |-> TRUE, text |-> bs ]

\* the loop that tries UTF-8 alone
ServerProcessResultUtf8Only(bs) == Decode(bs, encodings[1])

\* _server_process_result: the text of the first encoding that decodes,
\* not ok (the ValueError) when none does
server_process_result(bs) ==
    LET hits == { i \in 1..Len(encodings) : Decode(bs, encodings[i]).ok }
    IN  IF hits = { }
        THEN [ ok |-> FALSE, text |-> << >> ]
        ELSE Decode(bs, encodings[Least(hits)])

-----------------------------------------------------------------------------
(* The inputs of the model.                                                *)

Domains ==
    { "example.com", "foo.moe", "FOO.MOE", "example.de",
      "b" \o SmallUDiaeresis \o "cher.de", "foo..moe", "a..de" }

\* the server argument of a top-level call; "" is the default, no server
ExplicitServers ==
    { "", "whois.jprs.jp", "whois.denic.de", "whois.verisign-grs.com" }

\* the response texts a WHOIS server of the model may answer with
Replies ==
    { "refer: whois.verisign-grs.com\n",
      "Domain Name: EXAMPLE.COM\nRegistrar WHOIS Server: whois.iana.org\n",
      "No match\n",
      "Referral URL: https://rdap.example.net\n",
      "Whois Server: whois.verisign-grs.com\nWhois Server: whois.jprs.jp\n",
      "Domain Name: EXAMPLE.COM.AU\nWhois Server: whois.jprs.jp\n\n"
          \o "Domain Name: EXAMPLE.COM\nWhois Server: whois.iana.org\n",
      "Domain Name: XN--BCHER-KVA.DE\nNo match\n\n"
          \o "Whois Server: whois.jprs.jp\n" }

\* the lines the texts handed to a directly called helper are made of
Lines ==
    { "Whois Server: whois.verisign-grs.com\n",
      "refer: whois.jprs.jp\n",
      "referral URL: https://rdap.example.net\n",
      "\n",
      "Domain Name: EXAMPLE.COM\n",
      "Domain Name: EXAMPLEXCOM\n" }

TextsOf[n \in Nat] ==
    IF n = 0 THEN { "" }
    ELSE TextsOf[n - 1] \cup { t \o l : t \in TextsOf[n - 1], l \in Lines }

Texts == TextsOf[MaxLines]

\* the bytes the byte strings handed to a directly called
\* _server_process_result are made of: "A", two continuation bytes, the
\* lead bytes of a two-byte, two three-byte and a four-byte sequence, and
\* two bytes no sequence holds
SampleBytes == { 65, 128, 160, 195, 224, 237, 240, 192, 252 }

ByteStringsOf[n \in Nat] ==
    IF n = 0 THEN { << >> }
    ELSE ByteStringsOf[n - 1]
             \cup { Append(bs, b) : bs \in ByteStringsOf[n - 1], b \in SampleBytes }

ByteStrings == ByteStringsOf[MaxBytes]

\* the servers handed to a directly called prepare_request
RequestServers ==
    { "whois.jprs.jp", "whois.denic.de", "de.whois-servers.net",
      "whois.verisign-grs.com", "whois.opensrs.net", IANA_SERVER }

\* the server lists handed to a directly called extract_whois_server
ServerLists ==
    { << >>, << "whois.verisign-grs.com" >>, << "whois.jprs.jp" >>,
      << "whois.verisign-grs.com", "whois.jprs.jp" >> }

-----------------------------------------------------------------------------
(* The state machine: one call of an entry point of the module, from the   *)
(* call to its return or to the exception it raises.  A step runs the code *)
(* from one blocking network exchange to the next.                         *)

InitCall ==
    /\ pc = "call"
    /\ converted = NONE
    /\ sent = << >>
    /\ sockets = 0
    /\ calls = << >>
    /\ reply = << >>
    /\ events = << >>
    /\ outcome = "none"
    /\ result = NONE

\* get_whois_raw(domain, server, rfc3490, never_cut) of the module, or the
\* method of a new WhoisParser called with with_server_list
InitGetWhoisRaw ==
    /\ api = "get_whois_raw"
    /\ buff = << >>
    /\ domain \in Domains
    /\ explicit \in ExplicitServers
    /\ rfc3490 \in BOOLEAN
    /\ never_cut \in BOOLEAN
    /\ with_server_list \in BOOLEAN
    /\ server = explicit
    /\ whois_server = NONE
    /\ response = ""
    /\ previous = << >>
    /\ server_list = << >>

\* get_root_server(domain) of the module
InitGetRootServer ==
    /\ api = "get_root_server"
    /\ buff = << >>
    /\ domain \in Domains
    /\ explicit = ""
    /\ rfc3490 = TRUE
    /\ never_cut = FALSE
    /\ with_server_list = FALSE
    /\ server = ""
    /\ whois_server = NONE
    /\ response = ""
    /\ previous = << >>
    /\ server_list = << >>

\* WhoisParser.prepare_request(domain, server)
InitPrepareRequest ==
    /\ api = "prepare_request"
    /\ buff = << >>
    /\ domain \in Domains
    /\ server \in RequestServers
    /\ explicit = ""
    /\ rfc3490 = FALSE
    /\ never_cut = FALSE
    /\ with_server_list = FALSE
    /\ whois_server = NONE
    /\ response = ""
    /\ previous = << >>
    /\ server_list = << >>

\* WhoisParser.extract_whois_server(response, server_list)
InitExtractWhoisServer ==
    /\ api = "extract_whois_server"
    /\ buff = << >>
    /\ response \in Texts
    /\ server_list \in ServerLists
    /\ domain = "example.com"
    /\ explicit = ""
    /\ rfc3490 = FALSE
    /\ never_cut = FALSE
    /\ with_server_list = FALSE
    /\ server = ""
    /\ whois_server = NONE
    /\ previous = << >>

\* parser._process_response(response, domain, server, previous,
\*                          server_list, never_cut)
InitProcessResponse ==
    /\ api = "_process_response"
    /\ buff = << >>
    /\ response \in Texts
    /\ domain \in { "example.com", "example.de" }
    /\ server \in { "whois.verisign-grs.com", "whois.jprs.jp" }
    /\ previous \in { << >>, << "No match\n" >> }
    /\ server_list = << >>
    /\ never_cut \in BOOLEAN
    /\ explicit = ""
    /\ rfc3490 = FALSE
    /\ with_server_list = FALSE
    /\ whois_server = NONE

\* parser._server_process_result(result, server)
InitServerProcessResult ==
    /\ api = "_server_process_result"
    /\ buff \in ByteStrings
    /\ server = "whois.iana.org"
    /\ domain = "example.com"
    /\ explicit = ""
    /\ rfc3490 = FALSE
    /\ never_cut = FALSE
    /\ with_server_list = FALSE
    /\ whois_server = NONE
    /\ response = ""
    /\ previous = << >>
    /\ server_list = << >>

Init ==
    /\ InitCall
    /\ \/ InitGetWhoisRaw
       \/ InitGetRootServer
       \/ InitPrepareRequest
       \/ InitExtractWhoisServer
       \/ InitProcessResponse
       \/ InitServerProcessResult

inputs ==
    << api, domain, explicit, rfc3490, never_cut, with_server_list, buff >>

Raise(e) == pc' = "done" /\ outcome' = e /\ result' = NONE

Return(v) == pc' = "done" /\ outcome' = "ok" /\ result' = v

\* the domain_rfc3490 property: the cached value, else the conversion
domain_rfc3490 ==
    IF converted # NONE THEN converted ELSE convert_to_rfc3490(domain)

\* self.domain_rfc3490 if self.rfc3490 else self.domain
DomainInUse == IF rfc3490 THEN domain_rfc3490 ELSE domain

Converting(evs) ==
    IF rfc3490 /\ converted = NONE
    THEN Append(evs, "convert_to_rfc3490") ELSE evs

\* a step in which _server_request creates n sockets: it closes none,
\* neither on its return nor when connect, send or recv raises
SocketsCreated(n) == sockets' = sockets + n

\* The connections that can be open.  A socket the code has not closed is
\* closed when the interpreter finalizes the object, which it may do as
\* soon as the object is unreferenced or at any time after: any number of
\* them, from none to all, is open.
OpenConnections == 0..sockets

\* socket connect and send of _server_request
Send(s, request, by) ==
    /\ Len(sent) < MaxQueries
    /\ sent' = Append(sent, [ server |-> s, request |-> request, by |-> by ])
    /\ SocketsCreated(1)

\* the response read from server s: the one it already gave in this call,
\* else any
Answers(s) == IF s \in DOMAIN reply THEN { reply[s] } ELSE Replies

Answered(s, text) ==
    reply' = IF s \in DOMAIN reply THEN reply ELSE reply @@ (s :> text)

\* the request built and sent before the domain is converted
QueryBeforeConverting(ws, evs) ==
    LET d == DomainInUse
    IN  /\ whois_server' = ws
        /\ events' = Converting(evs)
        /\ Send(ws, prepare_request(domain, ws), "get_whois_raw")
        /\ IF d = EncodingError
           THEN /\ Raise(EncodingError)
                /\ UNCHANGED converted
           ELSE /\ converted' = IF rfc3490 THEN d ELSE converted
                /\ pc' = "chase_reply"
                /\ UNCHANGED << outcome, result >>

\* get_whois_raw from the choice of whois_server ws to the request sent to
\* it, after the events evs
Query(ws, evs) ==
    LET d == DomainInUse
    IN  /\ whois_server' = ws
        /\ events' = Converting(evs)
        /\ IF d = EncodingError
           THEN /\ Raise(EncodingError)
                /\ UNCHANGED << converted, sent >>
                /\ SocketsCreated(0)
           ELSE /\ converted' = IF rfc3490 THEN d ELSE converted
                /\ Send(ws, prepare_request(d, ws), "get_whois_raw")
                /\ pc' = "chase_reply"
                /\ UNCHANGED << outcome, result >>

\* the return of get_root_server with server ws: to the caller of the
\* module's get_root_server, or into get_whois_raw
RootFound(ws, evs) ==
    IF api = "get_root_server"
    THEN /\ Return(ws)
         /\ events' = evs
         /\ UNCHANGED << whois_server, converted, sent >>
         /\ SocketsCreated(0)
    ELSE Query(ws, evs)

\* get_root_server up to its return or to the request sent to IANA
LocateRoot ==
    LET default_server == get_default_server(domain)
        evs == Append(events, "get_default_server")
        d == DomainInUse
    IN  IF default_server # NONE
        THEN RootFound(default_server, evs)
        ELSE /\ events' = Converting(evs)
             /\ UNCHANGED whois_server
             /\ IF d = EncodingError
                THEN /\ Raise(EncodingError)
                     /\ UNCHANGED << converted, sent >>
                     /\ SocketsCreated(0)
                ELSE /\ converted' = IF rfc3490 THEN d ELSE converted
                     /\ Send(IANA_SERVER, d, "get_root_server")
                     /\ pc' = "root_reply"
                     /\ UNCHANGED << outcome, result >>

\* get_whois_raw that locates the root server whatever server it is given
GetWhoisRawLocating ==
    /\ pc = "call"
    /\ api = "get_whois_raw"
    /\ LocateRoot
    /\ UNCHANGED << inputs, calls, server, response, previous, server_list, reply >>

\* a call of WhoisParser.get_whois_raw (the top-level one, or the recursive
\* one for a referral), up to the first request it sends
GetWhoisRaw ==
    /\ pc = "call"
    /\ api = "get_whois_raw"
    /\ IF server # "" THEN Query(server, events) ELSE LocateRoot
    /\ UNCHANGED << inputs, calls, server, response, previous, server_list, reply >>

\* a call of the module's get_root_server, up to the request it sends
GetRootServer ==
    /\ pc = "call"
    /\ api = "get_root_server"
    /\ LocateRoot
    /\ UNCHANGED << inputs, calls, server, response, previous, server_list, reply >>

\* get_root_server without its test of the server extracted
RootReplyUnchecked ==
    /\ pc = "root_reply"
    /\ \E data \in Answers(IANA_SERVER) :
          /\ Answered(IANA_SERVER, data)
          /\ RootFound(extract_whois_server(data, << >>), events)
    /\ UNCHANGED << inputs, calls, server, response, previous, server_list >>

\* the response of IANA arrives: the rest of get_root_server and, in
\* get_whois_raw, the request to the server found
RootReply ==
    /\ pc = "root_reply"
    /\ \E data \in Answers(IANA_SERVER) :
          LET new_server == extract_whois_server(data, << >>)
          IN  /\ Answered(IANA_SERVER, data)
              /\ IF new_server = NONE
                 THEN /\ Raise(NoAuthorityError)
                      /\ UNCHANGED << whois_server, converted, sent, events >>
                      /\ SocketsCreated(0)
                 ELSE RootFound(new_server, events)
    /\ UNCHANGED << inputs, calls, server, response, previous, server_list >>

\* _process_response handed the domain as given
ChaseReplyWithDomainGiven ==
    /\ pc = "chase_reply"
    /\ \E text \in Answers(whois_server) :
          LET r == process_response(text, domain, whois_server,
                                    previous, server_list, never_cut)
              new_server == extract_whois_server(r.response, r.server_list)
          IN  /\ Answered(whois_server, text)
              /\ response' = r.response
              /\ previous' = r.previous
              /\ server_list' = r.server_list
              /\ IF new_server # NONE
                 THEN /\ server' = new_server
                      /\ pc' = "call"
                      /\ UNCHANGED << outcome, result >>
                 ELSE /\ Return(IF with_server_list
                                THEN << r.previous, r.server_list >>
                                ELSE r.previous)
                      /\ UNCHANGED server
    /\ UNCHANGED << inputs, calls, whois_server, converted, sent, events >>
    /\ SocketsCreated(0)

\* the response of whois_server arrives: _process_response, the referral
\* extraction, and the recursive call or the return
ChaseReply ==
    /\ pc = "chase_reply"
    /\ \E text \in Answers(whois_server) :
          LET r == process_response(text, DomainInUse, whois_server,
                                    previous, server_list, never_cut)
              new_server == extract_whois_server(r.response, r.server_list)
          IN  /\ Answered(whois_server, text)
              /\ response' = r.response
              /\ previous' = r.previous
              /\ server_list' = r.server_list
              /\ IF new_server # NONE
                 THEN /\ server' = new_server
                      /\ pc' = "call"
                      /\ UNCHANGED << outcome, result >>
                 ELSE /\ Return(IF with_server_list
                                THEN << r.previous, r.server_list >>
                                ELSE r.previous)
                      /\ UNCHANGED server
    /\ UNCHANGED << inputs, calls, whois_server, converted, sent, events >>
    /\ SocketsCreated(0)

\* the socket error caught, and the responses gathered so far returned
TransportFailureCaught ==
    /\ pc \in { "root_reply", "chase_reply" }
    /\ Return(previous)
    /\ events' = Append(events, "socket.error")
    /\ UNCHANGED << inputs, calls, server, whois_server, converted, response,
                    previous, server_list, sent, reply >>
    /\ SocketsCreated(0)

\* connect, send or recv of _server_request raises: nothing catches it
TransportFailure ==
    /\ pc \in { "root_reply", "chase_reply" }
    /\ Raise(TransportError)
    /\ events' = Append(events, "socket.error")
    /\ UNCHANGED << inputs, calls, server, whois_server, converted, response,
                    previous, server_list, sent, reply >>
    /\ SocketsCreated(0)

\* a direct call of the classmethod prepare_request
PrepareRequest ==
    /\ pc = "call"
    /\ api = "prepare_request"
    /\ Return(prepare_request(domain, server))
    /\ UNCHANGED << inputs, calls, server, whois_server, converted, response,
                    previous, server_list, sent, sockets, reply, events >>

\* a direct call of the classmethod extract_whois_server
ExtractWhoisServer ==
    /\ pc = "call"
    /\ api = "extract_whois_server"
    /\ Return(extract_whois_server(response, server_list))
    /\ UNCHANGED << inputs, calls, server, whois_server, converted, response,
                    previous, server_list, sent, sockets, reply, events >>

\* a direct call of _process_response; response keeps the text given,
\* result the text returned
ProcessResponse ==
    /\ pc = "call"
    /\ api = "_process_response"
    /\ LET r == process_response(response, domain, server, previous,
                                 server_list, never_cut)
       IN  /\ Return(r.response)
           /\ previous' = r.previous
           /\ server_list' = r.server_list
    /\ UNCHANGED << inputs, calls, server, whois_server, converted, response,
                    sent, sockets, reply, events >>

\* a direct call of _server_process_result
ServerProcessResult ==
    /\ pc = "call"
    /\ api = "_server_process_result"
    /\ IF server_process_result(buff).ok
       THEN Return(server_process_result(buff).text)
       ELSE Raise(DecodeError)
    /\ UNCHANGED << inputs, calls, server, whois_server, converted, response,
                    previous, server_list, sent, sockets, reply, events >>

Next ==
    \/ GetWhoisRaw
    \/ GetRootServer
    \/ RootReply
    \/ ChaseReply
    \/ TransportFailure
    \/ PrepareRequest
    \/ ExtractWhoisServer
    \/ ProcessResponse
    \/ ServerProcessResult

Spec == Init /\ [][Next]_vars

-----------------------------------------------------------------------------
(* Several top-level calls of get_whois_raw on one WhoisParser instance,   *)
(* each with the arguments of the first and with previous and server_list  *)
(* left out.  The instance keeps the domain, rfc3490 and the cached        *)
(* conversion; a server answers in a later call as it did in an earlier    *)
(* one.                                                                    *)

\* the domains of the instances called more than once: one of the table,
\* and one to convert and to look up at IANA
InstanceDomains == { "example.com", "b" \o SmallUDiaeresis \o "cher.de" }

\* what is kept of a call that has ended
CallRecord ==
    [ outcome |-> outcome, result |-> result, sent |-> sent,
      server_list |-> server_list ]

\* previous and server_list as default arguments that are lists, made once
\* and shared by the calls that pass neither
CallAgainWithSharedDefaults ==
    /\ pc = "done"
    /\ api = "get_whois_raw"
    /\ Len(calls) + 1 < MaxCalls
    /\ calls' = Append(calls, CallRecord)
    /\ pc' = "call"
    /\ server' = explicit
    /\ whois_server' = NONE
    /\ response' = ""
    /\ sent' = << >>
    /\ events' = << >>
    /\ outcome' = "none"
    /\ result' = NONE
    /\ UNCHANGED << inputs, converted, reply, sockets, previous, server_list >>

\* the next top-level call of get_whois_raw on the instance: previous and
\* server_list default to None, and both start as new lists
CallAgain ==
    /\ pc = "done"
    /\ api = "get_whois_raw"
    /\ Len(calls) + 1 < MaxCalls
    /\ calls' = Append(calls, CallRecord)
    /\ pc' = "call"
    /\ server' = explicit
    /\ whois_server' = NONE
    /\ response' = ""
    /\ previous' = << >>
    /\ server_list' = << >>
    /\ sent' = << >>
    /\ events' = << >>
    /\ outcome' = "none"
    /\ result' = NONE
    /\ UNCHANGED << inputs, converted, reply, sockets >>

\* a new WhoisParser, and the first call of its get_whois_raw
InitInstance ==
    /\ InitCall
    /\ InitGetWhoisRaw
    /\ domain \in InstanceDomains

NextInstance ==
    \/ GetWhoisRaw
    \/ RootReply
    \/ ChaseReply
    \/ TransportFailure
    \/ CallAgain

InstanceSpec == InitInstance /\ [][NextInstance]_vars

-----------------------------------------------------------------------------
(* What the claims speak of.                                               *)

IsRootQuery(q) == q.by = "get_root_server"
IsChaseQuery(q) == q.by = "get_whois_raw"

\* the requests of the IANA root lookup, and those of the referral chase
RootQueries == SelectSeq(sent, IsRootQuery)
ChaseQueries == SelectSeq(sent, IsChaseQuery)

Range(f) == { f[x] : x \in DOMAIN f }

\* a top-level resolution: a call of get_whois_raw
Resolving == api = "get_whois_raw"

\* the entries of the Static Override Table the domain, as given, ends with
TableMatches == { e \in Range(root_servers) : EndsWith(domain, e[1]) }

\* the domain has an IDNA form
Encodable == convert_to_rfc3490(domain) # EncodingError

\* the domain every step after the table lookup is to use
NormalizedDomain == IF rfc3490 THEN convert_to_rfc3490(domain) ELSE domain

\* the server hostnames the referrals of the responses received so far
\* name (URL-form values are no hostnames)
ReferredServers ==
    { t \in UNION { Range(findall(reply[s])) : s \in DOMAIN reply } :
          ~ Contains(t, "://") }

\* the server the chase starts with, once it is known
StartingServers ==
    IF explicit # "" THEN { explicit }
    ELSE { e[2] : e \in TableMatches }

-----------------------------------------------------------------------------
(* C1: whatever the servers answer, a call of get_whois_raw ends, and the  *)
(* requests of its referral chase never outnumber the distinct server      *)
(* hostnames that are its starting server or are named by a referral of a  *)
(* response received.  It ends because every step of the call lowers a     *)
(* measure that is a natural number: three for each server hostname not    *)
(* yet in the Visited Server List, plus the distance of the step in hand   *)
(* from the end of its round; and no step waits for the cap on requests.   *)

\* every server hostname a call of the model can come to hear of
KnownServers ==
    ( ExplicitServers \ { "" } )
        \cup { e[2] : e \in Range(root_servers) }
        \cup UNION { Range(findall(t)) : t \in Replies }
        \cup { IANA_SERVER }

StepRank ==
    CASE pc = "call" -> 3
      [] pc = "root_reply" -> 2
      [] pc = "chase_reply" -> 1
      [] pc = "done" -> 0

Measure ==
    3 * Cardinality(KnownServers \ Range(server_list)) + StepRank

ChaseWithinDistinctServers ==
    /\ Len(ChaseQueries) <= Cardinality(StartingServers \cup ReferredServers)
    /\ pc = "call" => Len(sent) < MaxQueries

C1_ChaseEndsWithinDistinctServers ==
    /\ [](Resolving => ChaseWithinDistinctServers)
    /\ [][Resolving => Measure' < Measure]_vars

\* a chase of three requests that ends normally, having asked every server
\* it heard of
C1_Witness ==
    /\ Resolving
    /\ pc = "done"
    /\ outcome = "ok"
    /\ Len(ChaseQueries) = 3
    /\ Cardinality(StartingServers \cup ReferredServers) = 3

-----------------------------------------------------------------------------
(* C2: within one call of get_whois_raw no server hostname is sent more    *)
(* than one request, the request of the IANA root lookup counted with the  *)
(* requests of the referral chase.                                         *)

C2_NoServerQueriedTwice ==
    Resolving =>
        \A i, j \in 1..Len(sent) : sent[i].server = sent[j].server => i = j

-----------------------------------------------------------------------------
(* C3: _process_response for whois.verisign-grs.com puts at the head of    *)
(* the Response Chain, with never_cut false, a block of the response (the  *)
(* pieces between blank lines) that has the line "Domain Name: " followed  *)
(* by the domain in upper case, or the full response when no block has     *)
(* that line; with never_cut true it puts the full response there.         *)

\* the block has the line among its lines
HasLine(block, line) == InList(line, Split(block, "\n"))

\* the blocks of the text that have the "Domain Name:" line of domain d
BlocksOfDomain(text, d) ==
    { b \in Range(Split(text, "\n\n")) :
          HasLine(b, "Domain Name: " \o Upper(d)) }

C3_VerisignEntryIsBlockOfDomain ==
    ( /\ api = "_process_response"
      /\ pc = "done"
      /\ server = "whois.verisign-grs.com" ) =>
        IF never_cut \/ BlocksOfDomain(response, domain) = { }
        THEN previous[1] = response
        ELSE previous[1] \in BlocksOfDomain(response, domain)

-----------------------------------------------------------------------------
(* C4: extract_whois_server returns the first referral token of the        *)
(* response, in text order, that is neither in the server list nor holds   *)
(* "://", and None exactly when the response has no such token; tokens     *)
(* before it that are in the list or hold "://" are passed over.  The      *)
(* labels match in any case: the text in upper case has the same tokens,   *)
(* in upper case.                                                          *)

\* the places of the referral tokens that may be returned
Returnable(tokens, list) ==
    { i \in 1..Len(tokens) :
          ~ InList(tokens[i], list) /\ ~ Contains(tokens[i], "://") }

C4_FirstReturnableToken ==
    ( api = "extract_whois_server" /\ pc = "done" ) =>
        LET tokens == findall(response)
            ok == Returnable(tokens, server_list)
        IN  /\ outcome = "ok"
            /\ (result = NONE) <=> (ok = { })
            /\ \A i \in ok :
                   (\A j \in 1..(i - 1) : j \notin ok) => result = tokens[i]
            /\ findall(Upper(response))
                   = [ i \in 1..Len(tokens) |-> Upper(tokens[i]) ]

\* a token that is in the list, or a URL, is passed over and a later one
\* is returned
C4_Witness ==
    /\ api = "extract_whois_server"
    /\ pc = "done"
    /\ result # NONE
    /\ Len(findall(response)) >= 2
    /\ result # findall(response)[1]
    /\ Lower(response) # response

-----------------------------------------------------------------------------
(* C5: prepare_request gives domain + "/e" for whois.jprs.jp; else         *)
(* "-T dn,ace " + domain for a domain ending in ".de" and the server       *)
(* whois.denic.de or de.whois-servers.net; else "=" + domain for           *)
(* whois.verisign-grs.com; else the domain.  No two of the three quirks    *)
(* apply together, so exactly one rule is the first to apply.  Every       *)
(* request of the chase is what these rules give for the domain in use     *)
(* and the server the request is sent to.                                  *)

\* the rules in their order, the last one being the default
QuirkApplies(d, s) ==
    << s = "whois.jprs.jp",
       EndsWith(d, ".de") /\ s \in { "whois.denic.de", "de.whois-servers.net" },
       s = "whois.verisign-grs.com",
       TRUE >>

QuirkRequest(d) == << d \o "/e", "-T dn,ace " \o d, "=" \o d, d >>

\* the rules that apply and that no rule before them does
FirstApplying(d, s) ==
    { k \in 1..4 : /\ QuirkApplies(d, s)[k]
                   /\ \A n \in 1..(k - 1) : ~ QuirkApplies(d, s)[n] }

RequestByRules(d, s, request) ==
    /\ Cardinality(FirstApplying(d, s)) = 1
    /\ Cardinality({ k \in 1..3 : QuirkApplies(d, s)[k] }) <= 1
    /\ \A k \in FirstApplying(d, s) : request = QuirkRequest(d)[k]

C5_RequestLineByQuirkRules ==
    /\ ( api = "prepare_request" /\ pc = "done" ) =>
           /\ outcome = "ok"
           /\ RequestByRules(domain, server, result)
    /\ Resolving =>
           \A i \in 1..Len(sent) :
               IsChaseQuery(sent[i]) =>
                   RequestByRules(NormalizedDomain, sent[i].server,
                                  sent[i].request)

\* the request of an internationalized .de domain to whois.denic.de
C5_Witness ==
    /\ Resolving
    /\ domain = "b" \o SmallUDiaeresis \o "cher.de"
    /\ sent # << >>
    /\ sent[1] = [ server |-> "whois.denic.de",
                   request |-> "-T dn,ace xn--bcher-kva.de",
                   by |-> "get_whois_raw" ]

-----------------------------------------------------------------------------
(* C6: for a domain that, as given, ends with a pattern of root_servers,   *)
(* get_root_server returns the server of that pattern, sends no request    *)
(* (none to whois.iana.org either) and does not convert the domain before  *)
(* it returns: the module's get_root_server returns it even for a domain   *)
(* that has no IDNA form, and get_whois_raw without a server sends its     *)
(* first request to it.                                                    *)

\* get_root_server is called: by the client, or by get_whois_raw when it
\* is given no server
Locating == api = "get_root_server" \/ (Resolving /\ explicit = "")

C6_TableServerWithoutNetwork ==
    ( Locating /\ TableMatches # { } ) =>
        /\ RootQueries = << >>
        /\ pc # "call" => events[1] = "get_default_server"
        /\ api = "get_root_server" =>
               /\ sent = << >>
               /\ converted = NONE
               /\ ~ InList("convert_to_rfc3490", events)
               /\ pc = "done" =>
                      /\ outcome = "ok"
                      /\ result \in { e[2] : e \in TableMatches }
        /\ ( Resolving /\ sent # << >> ) =>
               sent[1].server \in { e[2] : e \in TableMatches }

\* the table's server is returned for a domain that cannot be normalized
C6_Witness ==
    /\ api = "get_root_server"
    /\ domain = "foo..moe"
    /\ pc = "done"
    /\ result = "whois.nic.moe"
    /\ sent = << >>

-----------------------------------------------------------------------------
(* C7: get_whois_raw given a server sends its first request to that        *)
(* server and never calls get_root_server: root_servers is not looked up   *)
(* and no request of the IANA root lookup is sent.  Given no server, the   *)
(* first request of the chase goes to the server get_root_server returns:  *)
(* the table's server, or the one extracted from the response of IANA.     *)

\* what get_root_server returns, once it has what it needs
RootServerReturned ==
    IF TableMatches # { }
    THEN { e[2] : e \in TableMatches }
    ELSE IF IANA_SERVER \in DOMAIN reply
    THEN { extract_whois_server(reply[IANA_SERVER], << >>) }
    ELSE { }

C7_ExplicitServerSkipsLocator ==
    /\ ( Resolving /\ explicit # "" ) =>
           /\ RootQueries = << >>
           /\ ~ InList("get_default_server", events)
           /\ sent # << >> =>
                  /\ sent[1].server = explicit
                  /\ IsChaseQuery(sent[1])
    /\ ( Resolving /\ explicit = "" ) =>
           /\ pc # "call" => events[1] = "get_default_server"
           /\ ChaseQueries # << >> =>
                  ChaseQueries[1].server \in RootServerReturned

\* a call with a server, for a domain the table has a server for, that
\* went on to a referred server
C7_Witness ==
    /\ Resolving
    /\ explicit = "whois.denic.de"
    /\ domain = "foo.moe"
    /\ Len(sent) = 2
    /\ sent[1].server = explicit

-----------------------------------------------------------------------------
(* C8: for a domain that ends with no pattern of root_servers (and that    *)
(* has a form to send), get_root_server sends one request, to              *)
(* whois.iana.org, and no second one, and returns the server               *)
(* extract_whois_server finds in the response; when it finds none it       *)
(* raises the WhoisException, after which no request is sent and the call  *)
(* returns nothing.                                                        *)

C8_OneIanaQueryOrNoAuthority ==
    ( Locating /\ TableMatches = { } /\ NormalizedDomain # EncodingError ) =>
        /\ Len(RootQueries) <= 1
        /\ pc # "call" =>
               /\ Len(RootQueries) = 1
               /\ sent[1] = [ server |-> IANA_SERVER,
                              request |-> NormalizedDomain,
                              by |-> "get_root_server" ]
        /\ (outcome = NoAuthorityError) <=>
               /\ IANA_SERVER \in DOMAIN reply
               /\ extract_whois_server(reply[IANA_SERVER], << >>) = NONE
        /\ outcome = NoAuthorityError =>
               /\ pc = "done"
               /\ Len(sent) = 1
               /\ result = NONE
               /\ previous = << >>
        /\ ( api = "get_root_server" /\ outcome = "ok" ) =>
               /\ Len(sent) = 1
               /\ result = extract_whois_server(reply[IANA_SERVER], << >>)
        /\ ( Resolving /\ ChaseQueries # << >> ) =>
               ChaseQueries[1].server
                   = extract_whois_server(reply[IANA_SERVER], << >>)

\* IANA names no server: the call ends with the exception after the one
\* request
C8_Witness ==
    /\ Resolving
    /\ outcome = NoAuthorityError
    /\ Len(sent) = 1
    /\ sent[1].server = IANA_SERVER

-----------------------------------------------------------------------------
(* C9: with rfc3490 set, get_whois_raw for a domain that has no IDNA form  *)
(* ends with the UnicodeError and sends no request, whether it was given   *)
(* a server, found one in root_servers or had to ask IANA; and no call     *)
(* that ends with the UnicodeError has sent a request.                     *)

C9_EncodingErrorBeforeAnyQuery ==
    /\ ( Resolving /\ rfc3490 /\ ~ Encodable ) =>
           /\ sent = << >>
           /\ pc = "done" => outcome = EncodingError
           /\ pc \in { "call", "done" }
    /\ outcome = EncodingError => sent = << >> /\ result = NONE

\* the server came from root_servers, and the conversion then failed
C9_Witness ==
    /\ Resolving
    /\ domain = "foo..moe"
    /\ explicit = ""
    /\ outcome = EncodingError
    /\ events = << "get_default_server", "convert_to_rfc3490" >>

-----------------------------------------------------------------------------
(* C10: when a request fails in the socket calls, the call ends there      *)
(* with that error: from the failure on no request is sent (none to the    *)
(* failed server, none to another), and the call returns neither the       *)
(* responses nor the servers it had gathered.                              *)

Failed == InList("socket.error", events)

C10_TransportFailurePropagates ==
    /\ [](Failed => /\ pc = "done"
                    /\ outcome = TransportError
                    /\ result = NONE)
    /\ [][Failed' => sent' = sent]_vars

\* the failure comes after two responses had been gathered
C10_Witness ==
    /\ Resolving
    /\ Failed
    /\ Len(server_list) = 2
    /\ Len(sent) = 3
    /\ outcome = TransportError

-----------------------------------------------------------------------------
(* C11: get_root_server takes from root_servers the entry whose pattern    *)
(* is the longest one the domain ends with, letter case ignored: for a     *)
(* domain that ends with a pattern in some letter case it sends no         *)
(* request of the root lookup and returns the server of the longest such   *)
(* pattern, the same for every letter case of the domain.                  *)

\* the entries whose pattern the domain ends with when case is ignored
TableMatchesAnyCase ==
    { e \in Range(root_servers) : EndsWith(Lower(domain), Lower(e[1])) }

\* the servers of the longest of these patterns
LongestMatchServers ==
    { e[2] : e \in { m \in TableMatchesAnyCase :
                         \A f \in TableMatchesAnyCase : Len(f[1]) <= Len(m[1]) } }

C11_LongestSuffixAnyCase ==
    ( Locating /\ TableMatchesAnyCase # { } ) =>
        /\ RootQueries = << >>
        /\ ( api = "get_root_server" /\ pc = "done" ) =>
               /\ outcome = "ok"
               /\ result \in LongestMatchServers
        /\ ( Resolving /\ sent # << >> ) =>
               sent[1].server \in LongestMatchServers

-----------------------------------------------------------------------------
(* C12: the Response Chain of a get_whois_raw call lists, with never_cut   *)
(* false, the response of the latest query first and that of the first     *)
(* query last, and with never_cut true the responses in the order of the   *)
(* queries; in both cases the Visited Server List is in the order of the   *)
(* queries.                                                                *)

\* the response of the k-th server of the list, as _process_response puts
\* it in the chain
ChainEntry(k) ==
    IF never_cut \/ server_list[k] # "whois.verisign-grs.com"
    THEN reply[server_list[k]]
    ELSE select_record(reply[server_list[k]], NormalizedDomain)

C12_ChainOrderByNeverCut ==
    Resolving =>
        /\ Len(previous) = Len(server_list)
        /\ \A k \in 1..Len(server_list) :
               /\ server_list[k] = ChaseQueries[k].server
               /\ previous[IF never_cut THEN k ELSE Len(server_list) + 1 - k]
                      = ChainEntry(k)

-----------------------------------------------------------------------------
(* C14 (as stated): when the referral token a response names first is a    *)
(* server already in the Visited Server List, whatever other referral      *)
(* lines the response has, the call sends no further request and returns   *)
(* the chain it has gathered.                                              *)

\* the response of the k-th server of the list as get_whois_raw scans it
\* for a referral: the record selected, for whois.verisign-grs.com
Scanned(k) ==
    IF server_list[k] = "whois.verisign-grs.com"
    THEN select_record(reply[server_list[k]], NormalizedDomain)
    ELSE reply[server_list[k]]

\* the servers visited when the response of the k-th one is scanned
VisitedAt(k) == SubSeq(server_list, 1, k)

\* the call returned normally right after the response of the k-th server
ReturnedAfter(k) ==
    /\ Len(server_list) = k
    /\ Len(ChaseQueries) = k
    /\ pc = "done"
    /\ outcome = "ok"

C14_EndsAtFirstVisitedReferral ==
    Resolving =>
        \A k \in 1..Len(server_list) :
            LET tokens == findall(Scanned(k))
            IN  ( tokens # << >> /\ InList(tokens[1], VisitedAt(k)) ) =>
                    ReturnedAfter(k)

(* C14 (amended): a call of get_whois_raw returns normally exactly after   *)
(* a response that has no referral token which is neither in the Visited   *)
(* Server List nor a URL; otherwise the next request goes to the first     *)
(* such token, also when tokens before it name servers already visited.    *)

C14_EndsWhenNoNewReferral ==
    Resolving =>
        \A k \in 1..Len(server_list) :
            LET tokens == findall(Scanned(k))
                ok == Returnable(tokens, VisitedAt(k))
            IN  IF ok = { }
                THEN ReturnedAfter(k)
                ELSE /\ ~ ReturnedAfter(k)
                     /\ Len(ChaseQueries) > k =>
                            ChaseQueries[k + 1].server = tokens[Least(ok)]

\* a response naming a visited server first and a new one after it, and
\* the request sent to the new one
C14_Witness ==
    /\ Resolving
    /\ \E k \in 1..Len(server_list) :
           /\ findall(Scanned(k)) # << >>
           /\ InList(findall(Scanned(k))[1], VisitedAt(k))
           /\ Len(ChaseQueries) > k

-----------------------------------------------------------------------------
(* C15: never_cut has no part in the path of a get_whois_raw call: the     *)
(* first server is the one given or located, each next server is the one   *)
(* extract_whois_server finds in the response as scanned (the record       *)
(* selected, for whois.verisign-grs.com) with the servers visited so far,  *)
(* and the call returns when it finds none, with never_cut set or not; so  *)
(* two calls that differ in never_cut alone visit the same servers in the  *)
(* same order.  The chain entry of a server is its full response with      *)
(* never_cut and the response as scanned without: the two differ for       *)
(* whois.verisign-grs.com only.                                            *)

C15_NeverCutLeavesPathAlone ==
    Resolving =>
        /\ server_list # << >> =>
               server_list[1] \in
                   (IF explicit # "" THEN { explicit } ELSE RootServerReturned)
        /\ \A k \in 1..Len(server_list) :
               LET next == extract_whois_server(Scanned(k), VisitedAt(k))
                   entry == previous[Len(server_list) + 1 - k]
               IN  /\ k < Len(server_list) => server_list[k + 1] = next
                   /\ ( k = Len(server_list) /\ pc = "call" ) => server = next
                   /\ ( k = Len(server_list) /\ outcome = "ok" ) => next = NONE
                   /\ entry = IF never_cut THEN reply[server_list[k]]
                                           ELSE Scanned(k)
                   /\ server_list[k] # "whois.verisign-grs.com" =>
                          entry = reply[server_list[k]]

\* with never_cut, a response of whois.verisign-grs.com whose selected
\* record names another server than the full response does, and the
\* request sent to the server of the record
C15_Witness ==
    /\ Resolving
    /\ never_cut
    /\ \E k \in 1..Len(server_list) :
           /\ server_list[k] = "whois.verisign-grs.com"
           /\ k < Len(server_list)
           /\ previous[Len(server_list) + 1 - k] # Scanned(k)
           /\ server_list[k + 1]
                  # extract_whois_server(reply[server_list[k]], VisitedAt(k))

-----------------------------------------------------------------------------
(* C16: in both never_cut modes the Response Chain and the Visited Server  *)
(* List of a get_whois_raw call have the same length; once a response has  *)
(* been processed that length is the number of requests of the chase, and  *)
(* while a request is awaiting its response it is one less.  Each server   *)
(* queried has its one entry in the list, and it is in the list when the   *)
(* next server is extracted: the next server is never one of the list.  A  *)
(* call of _process_response adds one entry to each.                       *)

C16_ChainAndListGrowTogether ==
    /\ Resolving =>
           /\ Len(previous) = Len(server_list)
           /\ ( pc = "call" \/ outcome = "ok" ) =>
                  Len(ChaseQueries) = Len(server_list)
           /\ pc = "chase_reply" =>
                  Len(ChaseQueries) = Len(server_list) + 1
           /\ \A k \in 1..Len(server_list) :
                  server_list[k] = ChaseQueries[k].server
           /\ ( pc = "call" /\ server_list # << >> ) =>
                  ~ InList(server, server_list)
    /\ ( api = "_process_response" /\ pc = "done" ) =>
           /\ server_list = << server >>
           /\ Tail(previous) \in { << >>, << "No match\n" >> }

\* three responses gathered with never_cut, one of them cut for scanning
C16_Witness ==
    /\ Resolving
    /\ never_cut
    /\ outcome = "ok"
    /\ Len(previous) = 3
    /\ Len(server_list) = 3
    /\ \E k \in 1..3 : Scanned(k) # reply[server_list[k]]

-----------------------------------------------------------------------------
(* C17: one domain string serves the whole call after the lookup in        *)
(* root_servers: the IDNA form when rfc3490 is set, the domain as given    *)
(* otherwise.  It is the request of the root lookup, the domain of every   *)
(* request line of the chase, and the domain the record of a response of   *)
(* whois.verisign-grs.com is selected by.  The lookup in root_servers      *)
(* takes the domain as given, whatever rfc3490 is: a root lookup request   *)
(* is sent only for a domain that, as given, ends with no pattern.         *)

C17_OneDomainStringPerCall ==
    ( Resolving \/ api = "get_root_server" ) =>
        /\ \A i \in 1..Len(sent) :
               sent[i].request =
                   IF IsRootQuery(sent[i])
                   THEN NormalizedDomain
                   ELSE prepare_request(NormalizedDomain, sent[i].server)
        /\ \A k \in 1..Len(server_list) :
               ( ~ never_cut /\ server_list[k] = "whois.verisign-grs.com" ) =>
                   previous[Len(server_list) + 1 - k]
                       = select_record(reply[server_list[k]], NormalizedDomain)
        /\ RootQueries # << >> => get_default_server(domain) = NONE
        /\ ( Locating /\ pc # "call" /\ get_default_server(domain) = NONE
                      /\ NormalizedDomain # EncodingError ) =>
               RootQueries # << >>

\* the IDNA form, which differs from the domain given, went to IANA and to
\* whois.verisign-grs.com, and selected the record of the response
C17_Witness ==
    /\ Resolving
    /\ rfc3490
    /\ ~ never_cut
    /\ NormalizedDomain # domain
    /\ RootQueries # << >>
    /\ \E k \in 1..Len(server_list) :
           /\ server_list[k] = "whois.verisign-grs.com"
           /\ previous[Len(server_list) + 1 - k] # reply[server_list[k]]
           /\ select_record(reply[server_list[k]], domain)
                  = reply[server_list[k]]

-----------------------------------------------------------------------------
(* C18: _server_process_result decodes the bytes as UTF-8 when they are    *)
(* valid UTF-8 (the text it returns, encoded as UTF-8, is the bytes, and   *)
(* holds no surrogate) and as ISO-8859-1 otherwise (each byte gives the     *)
(* code point of its number); it returns a text for every byte string and  *)
(* never raises the ValueError.                                            *)

\* the UTF-8 encoding of a code point
Utf8Encode(cp) ==
    IF cp < 128 THEN << cp >>
    ELSE IF cp < 2048 THEN << 192 + (cp \div 64), 128 + (cp % 64) >>
    ELSE IF cp < 65536
    THEN << 224 + (cp \div 4096), 128 + ((cp \div 64) % 64), 128 + (cp % 64) >>
    ELSE << 240 + (cp \div 262144), 128 + ((cp \div 4096) % 64),
            128 + ((cp \div 64) % 64), 128 + (cp % 64) >>

\* the UTF-8 encoding of a text
Utf8Of[text \in Seq(Nat)] ==
    IF text = << >> THEN << >>
    ELSE Utf8Encode(text[1]) \o Utf8Of[Tail(text)]

\* a code point a text may hold: up to U+10FFFF and no surrogate
IsScalarValue(cp) == cp <= 1114111 /\ cp \notin 55296..57343

\* the byte string is the UTF-8 encoding of some text
IsUtf8(bs) == Utf8DecodeFrom[bs, 1].ok

C18_DecodeFallsBackToLatin1 ==
    ( api = "_server_process_result" /\ pc = "done" ) =>
        /\ outcome = "ok"
        /\ IF IsUtf8(buff)
           THEN /\ Utf8Of[result] = buff
                /\ \A i \in 1..Len(result) : IsScalarValue(result[i])
           ELSE result = buff

\* bytes that are not UTF-8 (a lead byte without its continuation) decoded
\* as ISO-8859-1
C18_Witness ==
    /\ api = "_server_process_result"
    /\ pc = "done"
    /\ outcome = "ok"
    /\ buff = << 65, 195 >>
    /\ result = << 65, 195 >>


\* ---------------------------------------------------------------------
\* C13: every connection is closed when its response has been read: at
\* every point of a resolution at most one connection is open, and none
\* is open once the call has returned or failed.
C13_ConnectionClosedAfterExchange ==
    \A open \in OpenConnections :
        /\ open <= 1
        /\ pc = "done" => open = 0


-----------------------------------------------------------------------------
(* C19: no Response Chain and no Visited Server List is carried from one   *)
(* top-level call of get_whois_raw to the next on the same instance.  In   *)
(* every call the list holds the servers of the requests of that call and  *)
(* the chain the responses to them, one each; and a call that ends         *)
(* normally after an earlier call with the same arguments ended normally   *)
(* has sent the same requests again, those to the servers the earlier call *)
(* visited included, and returns an equal result.                          *)

\* the servers of the requests of the chase of the call in hand
ServersQueried == [ k \in 1..Len(ChaseQueries) |-> ChaseQueries[k].server ]

C19_NoStateAcrossCalls ==
    /\ ( pc = "call" \/ outcome = "ok" ) =>
           /\ server_list = ServersQueried
           /\ Len(previous) = Len(server_list)
           /\ \A k \in 1..Len(server_list) :
                  previous[Len(server_list) + 1 - k] = ChainEntry(k)
    /\ \A i \in DOMAIN calls :
           ( outcome = "ok" /\ calls[i].outcome = "ok" ) =>
               /\ sent = calls[i].sent
               /\ server_list = calls[i].server_list
               /\ result = calls[i].result

\* a second call that ends normally, having asked again a server that the
\* first call visited and that a response of the second refers to
C19_Witness ==
    /\ Len(calls) = 1
    /\ calls[1].outcome = "ok"
    /\ outcome = "ok"
    /\ with_server_list
    /\ Len(server_list) = 3
    /\ result = << previous, server_list >>
    /\ server_list[2] \in Range(calls[1].server_list)
    /\ server_list[2] \in Range(findall(reply[server_list[1]]))

=============================================================================
